---- MODULE Spec2Model ----
(***************************************************************************)
(* A model of movie-rename.py: the filename parser, the file discoverers,  *)
(* the metadata resolution, the destination naming and the placement loop  *)
(* of main().                                                              *)
(*                                                                         *)
(* Strings are sequences of one-character strings, so that the regular     *)
(* expressions, str.title(), str.format() and pathlib's suffix arithmetic  *)
(* are computed character by character.  A path is the sequence of its     *)
(* components (each a string), relative to the working directory; the      *)
(* empty sequence is Path(".").                                            *)
(***************************************************************************)
EXTENDS Integers, Sequences, FiniteSets, TLC

\* Python's None where a string is expected, and where a path is
None == <<"None">>

NoPath == <<None>>

(***************************************************************************)
(* Bounds of the model.                                                    *)
(***************************************************************************)
\* the longest filename given to the parser, in tokens of ParseTokens
MaxTokens == 4
\* the longest lookup title given to the namer, in tokens of TitleTokens
MaxTitleTokens == 3
\* how many files another process may remove during one run
MaxVanish == 1

(***************************************************************************)
(* Characters and strings.                                                 *)
(***************************************************************************)
LowerChars == <<"a","b","c","d","e","f","g","h","i","j","k","l","m",
                "n","o","p","q","r","s","t","u","v","w","x","y","z">>

UpperChars == <<"A","B","C","D","E","F","G","H","I","J","K","L","M",
                "N","O","P","Q","R","S","T","U","V","W","X","Y","Z">>

Digits == {"0","1","2","3","4","5","6","7","8","9"}

Range(s) == { s[i] : i \in DOMAIN s }

IsLower(c) == c \in Range(LowerChars)

IsUpper(c) == c \in Range(UpperChars)

\* str.isalpha() for one (ASCII) character: a cased letter
IsCased(c) == IsLower(c) \/ IsUpper(c)

IndexIn(c, s) == CHOOSE i \in DOMAIN s : s[i] = c

ToUpper(c) == IF IsLower(c) THEN UpperChars[IndexIn(c, LowerChars)] ELSE c

ToLower(c) == IF IsUpper(c) THEN LowerChars[IndexIn(c, UpperChars)] ELSE c

\* str.lower()
Lower(s) == [i \in DOMAIN s |-> ToLower(s[i])]

RECURSIVE Concat(_)
\* "".join(parts)
Concat(parts) ==
    IF parts = <<>> THEN <<>> ELSE Head(parts) \o Concat(Tail(parts))

\* s[:n] of Python, n >= 0
Prefix(s, n) == SubSeq(s, 1, IF n < Len(s) THEN n ELSE Len(s))

\* s.endswith(t)
EndsWith(s, t) ==
    /\ Len(t) <= Len(s)
    /\ SubSeq(s, Len(s) - Len(t) + 1, Len(s)) = t

\* s.rfind(c) + 1: the last position of c in s, 0 when there is none
RFind(s, c) ==
    IF \E i \in DOMAIN s : s[i] = c
    THEN CHOOSE i \in DOMAIN s : s[i] = c /\ \A j \in DOMAIN s : s[j] = c => j <= i
    ELSE 0

RECURSIVE SubRuns(_, _, _)
\* re.sub("[<class>]+", rep, s): every maximal run of characters of class
\* cls becomes one rep
SubRuns(cls, rep, s) ==
    IF s = <<>> THEN <<>>
    ELSE IF Head(s) \in cls
         THEN IF Len(s) > 1 /\ s[2] \in cls
              THEN SubRuns(cls, rep, Tail(s))
              ELSE rep \o SubRuns(cls, rep, Tail(s))
         ELSE <<Head(s)>> \o SubRuns(cls, rep, Tail(s))

RECURSIVE LStrip(_)
LStrip(s) == IF s # <<>> /\ Head(s) = " " THEN LStrip(Tail(s)) ELSE s

RECURSIVE RStrip(_)
RStrip(s) ==
    IF s # <<>> /\ s[Len(s)] = " " THEN RStrip(SubSeq(s, 1, Len(s) - 1)) ELSE s

\* str.strip()
Strip(s) == RStrip(LStrip(s))

\* str.title(): a cased character is upper-cased when the character before
\* it is not cased, and lower-cased otherwise
Title(s) ==
    [i \in DOMAIN s |->
        IF IsCased(s[i])
        THEN IF i > 1 /\ IsCased(s[i - 1]) THEN ToLower(s[i]) ELSE ToUpper(s[i])
        ELSE s[i]]

(***************************************************************************)
(* pathlib.                                                                *)
(***************************************************************************)
RECURSIVE SplitOn(_, _)
\* s.split(c)
SplitOn(s, c) ==
    IF \E i \in DOMAIN s : s[i] = c
    THEN LET i == CHOOSE k \in DOMAIN s : s[k] = c /\ \A j \in 1..(k - 1) : s[j] # c
         IN  <<SubSeq(s, 1, i - 1)>> \o SplitOn(SubSeq(s, i + 1, Len(s)), c)
    ELSE <<s>>

\* Path(s): the components of s, the empty ones and "." dropped
PathOf(s) == SelectSeq(SplitOn(s, "/"), LAMBDA part : part # <<>> /\ part # <<".">>)

\* Path.name
NameOf(p) == IF p = <<>> THEN <<>> ELSE p[Len(p)]

\* Path.parent
ParentOf(p) == IF p = <<>> THEN <<>> ELSE SubSeq(p, 1, Len(p) - 1)

\* the suffix of a name: from its last dot, unless that dot is the first or
\* the last character
SuffixOfName(name) ==
    LET i == RFind(name, ".")
    IN  IF 1 < i /\ i < Len(name) THEN SubSeq(name, i, Len(name)) ELSE <<>>

\* Path.suffix
SuffixOf(p) == SuffixOfName(NameOf(p))

\* Path.stem
StemOf(p) ==
    LET name == NameOf(p)
    IN  SubSeq(name, 1, Len(name) - Len(SuffixOfName(name)))

(***************************************************************************)
(* extract_title_and_year.                                                 *)
(***************************************************************************)
Brackets == {"[", "]", "(", ")", "{", "}"}

Separators == {".", "_", "-"}

\* YEAR_PATTERN matches s at position i
YearAt(s, i) ==
    /\ i + 3 <= Len(s)
    /\ SubSeq(s, i, i + 1) \in {<<"1","9">>, <<"2","0">>}
    /\ s[i + 2] \in Digits
    /\ s[i + 3] \in Digits

\* a search that returns the rightmost match
YearSearch_Rightmost(s) ==
    IF \E i \in DOMAIN s : YearAt(s, i)
    THEN CHOOSE i \in DOMAIN s : YearAt(s, i) /\ \A j \in (i + 1)..Len(s) : ~YearAt(s, j)
    ELSE 0

\* YEAR_PATTERN.search(s): the start of the leftmost match, 0 for no match
YearSearch(s) ==
    IF \E i \in DOMAIN s : YearAt(s, i)
    THEN CHOOSE i \in DOMAIN s : YearAt(s, i) /\ \A j \in 1..(i - 1) : ~YearAt(s, j)
    ELSE 0

extract_title_and_year(name) ==
    LET stem0 == StemOf(PathOf(name))
        stem == SubRuns(Brackets, <<" ">>, stem0)
        normalized == SubRuns(Separators, <<" ">>, stem)
        match == YearSearch(normalized)
        year == IF match # 0 THEN SubSeq(normalized, match, match + 3) ELSE None
        title_section == IF match # 0 THEN SubSeq(normalized, 1, match - 1)
                         ELSE normalized
        title == Title(Strip(SubRuns({" "}, <<" ">>, title_section)))
    IN  [title |-> title, year |-> year]


(***************************************************************************)
(* Metadata resolution and destination naming (main, lines 122-130).       *)
(***************************************************************************)
Unknown == <<"u","n","k","n","o","w","n">>

\* a resolution that prefers the release date to the parsed year
ResolvedYear_DateFirst(parsed_year, results) ==
    IF results[1].release_date # None /\ results[1].release_date # <<>>
    THEN Prefix(results[1].release_date, 4)
    ELSE IF parsed_year # None /\ parsed_year # <<>> THEN parsed_year
    ELSE Unknown

\* year or (movies[0].release_date[:4] if getattr(movies[0], "release_date",
\* None) else "unknown")
ResolvedYear(parsed_year, results) ==
    IF parsed_year # None /\ parsed_year # <<>> THEN parsed_year
    ELSE IF results[1].release_date # None /\ results[1].release_date # <<>>
         THEN Prefix(results[1].release_date, 4)
         ELSE Unknown

\* config["movie_format"].format(n=..., y=...): a template is a sequence of
\* characters and of the two replacement fields "{n}" and "{y}"
Format(template, n, y) ==
    Concat([i \in DOMAIN template |->
                IF template[i] = "{n}" THEN n
                ELSE IF template[i] = "{y}" THEN y
                ELSE <<template[i]>>])

\* Path.with_suffix(suffix); NoPath stands for the ValueError raised for a
\* path with an empty name
WithSuffix(p, suffix) ==
    IF NameOf(p) = <<>> THEN NoPath
    ELSE LET name == NameOf(p)
             old_suffix == SuffixOfName(name)
             new_name == SubSeq(name, 1, Len(name) - Len(old_suffix)) \o suffix
         IN  Append(ParentOf(p), new_name)

\* a naming that keeps the extension the formatted name already has
NewFilename_KeepsOwnSuffix(template, results, y, ext) ==
    LET base == PathOf(Format(template, results[1].title, y))
    IN  IF SuffixOf(base) # <<>> THEN base ELSE WithSuffix(base, ext)

\* Path(base_filename).with_suffix(original_ext)
NewFilename(template, results, y, ext) ==
    WithSuffix(PathOf(Format(template, results[1].title, y)), ext)

(***************************************************************************)
(* The file system: files maps the path of every existing regular file to  *)
(* its content, dirs is the set of the existing directories.               *)
(***************************************************************************)
\* the sequences that list the set S, each element once
Orderings(S) ==
    { s \in [1..Cardinality(S) -> S] : \A i, j \in DOMAIN s : s[i] = s[j] => i = j }

\* Path.exists()
Exists(F, D, p) == p \in DOMAIN F \/ p \in D

IsUnder(p, d) == Len(p) > Len(d) /\ SubSeq(p, 1, Len(d)) = d

\* find_movie_files, as the set of the paths returned (rglob lists them in
\* an order of its own)
find_movie_files(target_path, extensions, F, D) ==
    LET normalized_exts == { Lower(ext) : ext \in extensions }
    IN  IF target_path \in DOMAIN F
        THEN IF Lower(SuffixOf(target_path)) \in normalized_exts
             THEN {target_path} ELSE {}
        ELSE IF target_path \in D
        THEN { item \in DOMAIN F :
                 IsUnder(item, target_path) /\ Lower(SuffixOf(item)) \in normalized_exts }
        ELSE {}

Subs == <<"S","u","b","s">>

Subtitles == <<"S","u","b","t","i","t","l","e","s">>

\* directory.glob("*" + ext), in the order in which the directory is listed
Glob(directory, ext, listing) ==
    SelectSeq(listing, LAMBDA p : ParentOf(p) = directory /\ EndsWith(NameOf(p), ext))

RECURSIVE AddUnseen(_, _)
\* lines 79-82: the subtitles not seen yet are appended
AddUnseen(acc, found) ==
    IF found = <<>> THEN acc
    ELSE IF Head(found) \in acc.seen THEN AddUnseen(acc, Tail(found))
    ELSE AddUnseen([seen |-> acc.seen \cup {Head(found)},
                    results |-> Append(acc.results, Head(found))], Tail(found))

RECURSIVE ForExts(_, _, _, _)
\* lines 78-82
ForExts(acc, directory, exts, listing) ==
    IF exts = <<>> THEN acc
    ELSE ForExts(AddUnseen(acc, Glob(directory, Head(exts), listing)),
                 directory, Tail(exts), listing)

RECURSIVE ForDirs(_, _, _, _, _)
\* lines 75-82
ForDirs(acc, candidate_dirs, exts, listing, D) ==
    IF candidate_dirs = <<>> THEN acc
    ELSE IF Head(candidate_dirs) \notin D
         THEN ForDirs(acc, Tail(candidate_dirs), exts, listing, D)
         ELSE ForDirs(ForExts(acc, Head(candidate_dirs), exts, listing),
                      Tail(candidate_dirs), exts, listing, D)

\* the files a directory listing of find_subtitle_files(movie, ...) can show
Listed(movie, F) ==
    { p \in DOMAIN F :
        ParentOf(p) \in { ParentOf(movie), Append(ParentOf(movie), Subs),
                          Append(ParentOf(movie), Subtitles) } }

\* find_subtitle_files; ext_order is the order in which the set
\* normalized_exts is iterated and listing the order in which the files are
\* listed
find_subtitle_files(movie, ext_order, listing, D) ==
    LET candidate_dirs == << ParentOf(movie),
                             Append(ParentOf(movie), Subs),
                             Append(ParentOf(movie), Subtitles) >>
    IN  ForDirs([seen |-> {}, results |-> <<>>], candidate_dirs, ext_order, listing, D).results

RECURSIVE Ancestors(_)
\* a directory and its parents
Ancestors(d) == IF d = <<>> THEN { <<>> } ELSE {d} \cup Ancestors(ParentOf(d))

\* shutil.copy2(src, dst) on the files
Copy2(F, src, dst) ==
    [p \in DOMAIN F \cup {dst} |-> IF p = dst THEN F[src] ELSE F[p]]

\* a move that leaves the source behind
ShutilMove_KeepsSource(F, src, dst) ==
    [p \in DOMAIN F \cup {dst} |-> IF p = dst THEN F[src] ELSE F[p]]

\* shutil.move(src, dst) on the files: os.rename, which replaces dst and
\* does nothing when src and dst are the same path
ShutilMove(F, src, dst) ==
    [p \in (DOMAIN F \ {src}) \cup {dst} |-> IF p = dst THEN F[src] ELSE F[p]]

(***************************************************************************)
(* The configuration and the environment of the runs that are modelled.    *)
(***************************************************************************)
MatrixName == <<"T","h","e",".","M","a","t","r","i","x",".","1","9","9","9",".",
                "1","0","8","0","p",".","B","l","u","R","a","y",".","x","2","6","4",
                ".","Y","I","F","Y",".","m","p","4">>

AvatarName == <<"A","v","a","t","a","r","-","2","0","0","9","-","E","X","T","E","N",
                "D","E","D","-","1","0","8","0","p","-","B","l","u","R","a","y","-",
                "x","2","6","4",".","m","p","4">>

sample_filenames ==
    << MatrixName,
       <<"I","n","c","e","p","t","i","o","n"," ","(","2","0","1","0",")"," ","[","1","0","8","0","p","]"," ","[","B","l","u","R","a","y","]"," ","[","Y","T","S",".","M","X","]",".","m","k","v">>,
       AvatarName,
       <<"G","o","o","d",".","F","o","r","t","u","n","e",".","2","0","2","5",".","1","0","8","0","p",".","W","E","B","R","i","p",".","x","2","6","5",".","1","0","b","i","t",".","A","A","C","5",".","1","-","[","Y","T","S",".","M","X","]",".","m","p","4">>,
       <<"D","e","a","d",".","O","f",".","W","i","n","t","e","r",".","2","0","2","5",".","1","0","8","0","p",".","W","E","B","R","i","p",".","x","2","6","4",".","A","A","C","5",".","1","-","[","Y","T","S",".","M","X","]">> >>

\* config.yml: movie_exts and subtitles.exts
movie_exts == { <<".","m","k","v">>, <<".","M","P","4">> }

MainSubtitleExts == { <<".","s","r","t">>, <<".","S","U","B">> }

\* config.yml: movie_format
Formats == { <<"{n}", " ", "(", "{y}", ")">>,
             <<"o", "u", "t", "/", "{n}", " ", "(", "{y}", ")">> }

\* what the lookup may answer
MovieA == [title |-> <<"A">>, release_date |-> <<"2","0","0","1","-","0","5","-","0","1">>]

MovieB == [title |-> <<"B">>, release_date |-> None]

MainCatalog == { <<>>, <<MovieA>>, <<MovieB, MovieA>> }

In == <<"i","n">>

\* a directory with two release files, a subtitle beside them and one
\* under Subs
ScanTree ==
    [dirs |-> { <<>>, <<In>>, <<In, Subs>> },
     files |-> { <<In, <<"a",".","m","k","v">>>>, <<In, <<"b",".","m","k","v">>>>, <<In, <<"x",".","s","r","t">>>>,
                 <<In, Subs, <<"y",".","s","r","t">>>> }]

\* a working directory that holds a movie under its canonical name and a
\* subtitle
CanonTree ==
    [dirs |-> { <<>> },
     files |-> { <<<<"A"," ","(","2","0","0","1",")",".","m","k","v">>>>, <<<<"x",".","s","r","t">>>> }]

\* a working directory without files
EmptyTree == [dirs |-> { <<>> }, files |-> {}]

\* the file systems and path arguments of the runs: a directory, one file,
\* the working directory, no argument, a path that does not exist
Scenarios ==
    { [tree |-> ScanTree, arg |-> <<"i","n">>],
      [tree |-> ScanTree, arg |-> <<"i","n","/","a",".","m","k","v">>],
      [tree |-> CanonTree, arg |-> <<".">>],
      [tree |-> EmptyTree, arg |-> None],
      [tree |-> CanonTree, arg |-> <<"g","o","n","e">>] }

VARIABLES
    action, subtitles_enabled, subtitle_exts, movie_format, path_arg, tmdb,
    files, dirs, real,
    filenames_to_process, idx,
    filename, title, year, original_ext, movies, resolved_year,
    destination, subtitle_files, subIdx,
    pc, discovered, vanished

config == <<action, subtitles_enabled, subtitle_exts, movie_format, path_arg, tmdb>>

\* what one iteration of the loop of line 120 computes before it places
resolved == <<filename, title, year, original_ext, movies, resolved_year,
              destination, subtitle_files>>

vars == <<action, subtitles_enabled, subtitle_exts, movie_format, path_arg, tmdb, files, dirs,
          real, filenames_to_process, idx, filename, title, year, original_ext,
          movies, resolved_year, destination, subtitle_files, subIdx, pc,
          discovered, vanished>>

\* the local variables of main before the loop
NoLocals ==
    /\ filename = None
    /\ title = None
    /\ year = None
    /\ original_ext = None
    /\ movies = <<>>
    /\ resolved_year = None
    /\ destination = NoPath
    /\ subtitle_files = <<>>
    /\ subIdx = 0

Init ==
    /\ action \in {"copy", "move", "test", "other"}
    /\ subtitles_enabled \in BOOLEAN
    /\ subtitle_exts = MainSubtitleExts
    /\ movie_format \in Formats
    /\ tmdb = MainCatalog
    /\ \E sc \in Scenarios :
          /\ path_arg = sc.arg
          /\ files = [p \in sc.tree.files |-> p]
          /\ dirs = sc.tree.dirs
    /\ real = [p \in DOMAIN files |-> p]
    /\ filenames_to_process = <<>>
    /\ idx = 0
    /\ NoLocals
    /\ pc = "start"
    /\ discovered = {}
    /\ vanished = 0

movie_file == filenames_to_process[idx]

\* the loop of line 120 moves on to the next movie file, or ends
NextFile ==
    /\ idx' = idx + 1
    /\ pc' = IF idx + 1 > Len(filenames_to_process) THEN "done" ELSE "search"

\* lines 94-118: the path argument, find_movie_files or the sample names
Start ==
    /\ pc = "start"
    /\ IF path_arg # None
       THEN LET target_path == PathOf(path_arg)
                movie_files == find_movie_files(target_path, movie_exts, files, dirs)
            IN  IF ~Exists(files, dirs, target_path)
                THEN /\ pc' = "exit"
                     /\ UNCHANGED <<filenames_to_process, idx>>
                ELSE /\ filenames_to_process' \in Orderings(movie_files)
                     /\ idx' = 1
                     /\ pc' = IF movie_files = {} THEN "done" ELSE "search"
       ELSE /\ filenames_to_process' = [i \in DOMAIN sample_filenames |->
                                           PathOf(sample_filenames[i])]
            /\ idx' = 1
            /\ pc' = "search"
    /\ UNCHANGED <<config, files, dirs, real, resolved, subIdx, discovered, vanished>>

\* a loop that creates the directory of the destination before it looks at
\* the results
NoResults_MakesDirectory ==
    /\ pc = "search"
    /\ \E results \in tmdb :
          /\ results = <<>>
          /\ movies' = results
    /\ filename' = NameOf(movie_file)
    /\ title' = extract_title_and_year(filename').title
    /\ year' = extract_title_and_year(filename').year
    /\ original_ext' = SuffixOf(movie_file)
    /\ dirs' = dirs \cup Ancestors(ParentOf(PathOf(Format(movie_format, title', Unknown))))
    /\ NextFile
    /\ UNCHANGED <<config, files, real, filenames_to_process, resolved_year,
                   destination, subtitle_files, subIdx, discovered, vanished>>

\* lines 121-124 and 173-174: the lookup returns no result
NoResults ==
    /\ pc = "search"
    /\ \E results \in tmdb :
          /\ results = <<>>
          /\ movies' = results
    /\ filename' = NameOf(movie_file)
    /\ title' = extract_title_and_year(filename').title
    /\ year' = extract_title_and_year(filename').year
    /\ original_ext' = SuffixOf(movie_file)
    /\ NextFile
    /\ UNCHANGED <<config, files, dirs, real, filenames_to_process, resolved_year,
                   destination, subtitle_files, subIdx, discovered, vanished>>

\* lines 121-139: the lookup returns results; the first one names the
\* destination, and the subtitles near the movie file are collected
Resolve ==
    /\ pc = "search"
    /\ filename' = NameOf(movie_file)
    /\ title' = extract_title_and_year(filename').title
    /\ year' = extract_title_and_year(filename').year
    /\ original_ext' = SuffixOf(movie_file)
    /\ \E results \in tmdb :
          /\ results # <<>>
          /\ movies' = results
          /\ resolved_year' = ResolvedYear(year', results)
          /\ LET new_filename == NewFilename(movie_format, results, resolved_year',
                                             original_ext')
             IN  IF new_filename = NoPath
                 THEN /\ pc' = "aborted"
                      /\ UNCHANGED <<destination, subtitle_files, subIdx, discovered>>
                 ELSE /\ destination' = new_filename
                      /\ IF subtitles_enabled
                         THEN \E ext_order \in Orderings({ Lower(e) : e \in subtitle_exts }),
                                 listing \in Orderings(Listed(movie_file, files)) :
                                 subtitle_files' =
                                     find_subtitle_files(movie_file, ext_order, listing, dirs)
                         ELSE subtitle_files' = <<>>
                      /\ discovered' = discovered \cup
                             { <<movie_file, s>> : s \in Range(subtitle_files') }
                      /\ subIdx' = 0
                      /\ pc' = "place"
    /\ UNCHANGED <<config, files, dirs, real, filenames_to_process, idx, vanished>>

\* after the movie: the loop of lines 147, 161 and 170 starts, or the loop
\* of line 120 moves on
AfterMovie ==
    IF subtitle_files = <<>>
    THEN NextFile /\ UNCHANGED subIdx
    ELSE pc' = "subtitles" /\ subIdx' = 1 /\ UNCHANGED idx

\* after a subtitle: the next subtitle, or the next movie file
AfterSubtitle ==
    IF subIdx = Len(subtitle_files)
    THEN NextFile /\ UNCHANGED subIdx
    ELSE pc' = "subtitles" /\ subIdx' = subIdx + 1 /\ UNCHANGED idx

\* an OSError or shutil.Error leaves main: nothing catches it
Abort == pc' = "aborted" /\ UNCHANGED <<idx, subIdx>>

\* destination.parent.mkdir(parents=True, exist_ok=True) raises when a
\* regular file is in the way
MkdirFails(d) == \E a \in Ancestors(d) : a \in DOMAIN files

\* the outcomes of the file system primitives of one step: all succeed, or
\* the named one raises an OSError (permission denied, disk full)
IoOutcomes == {"ok", "mkdir fails", "write fails"}

\* lines 140-146; copy2 raises SameFileError when the destination is the
\* source
PlaceCopy ==
    /\ pc = "place"
    /\ action = "copy"
    /\ \E io \in IoOutcomes :
          IF io = "mkdir fails" \/ MkdirFails(ParentOf(destination))
          THEN Abort /\ UNCHANGED <<files, dirs>>
          ELSE /\ dirs' = dirs \cup Ancestors(ParentOf(destination))
               /\ IF movie_file \in DOMAIN files
                  THEN IF io = "write fails" \/ movie_file = destination
                       THEN Abort /\ UNCHANGED files
                       ELSE files' = Copy2(files, movie_file, destination) /\ AfterMovie
                  ELSE AfterMovie /\ UNCHANGED files
    /\ UNCHANGED <<config, real, filenames_to_process, resolved, discovered, vanished>>

\* lines 154-160
PlaceMove ==
    /\ pc = "place"
    /\ action = "move"
    /\ \E io \in IoOutcomes :
          IF io = "mkdir fails" \/ MkdirFails(ParentOf(destination))
          THEN Abort /\ UNCHANGED <<files, dirs>>
          ELSE /\ dirs' = dirs \cup Ancestors(ParentOf(destination))
               /\ IF movie_file \in DOMAIN files
                  THEN IF io = "write fails"
                       THEN Abort /\ UNCHANGED files
                       ELSE files' = ShutilMove(files, movie_file, destination) /\ AfterMovie
                  ELSE AfterMovie /\ UNCHANGED files
    /\ UNCHANGED <<config, real, filenames_to_process, resolved, discovered, vanished>>

\* a test branch that creates the directory of the destination, as the copy
\* and move branches do
PlaceTest_MakesDirectory ==
    /\ pc = "place"
    /\ action = "test"
    /\ dirs' = dirs \cup Ancestors(ParentOf(destination))
    /\ AfterMovie
    /\ UNCHANGED <<config, files, real, filenames_to_process, resolved,
                   discovered, vanished>>

\* lines 168-169
PlaceTest ==
    /\ pc = "place"
    /\ action = "test"
    /\ AfterMovie
    /\ UNCHANGED <<config, files, dirs, real, filenames_to_process, resolved,
                   discovered, vanished>>

\* no branch of lines 140-172 is taken for another action
PlaceNothing ==
    /\ pc = "place"
    /\ action \notin {"copy", "move", "test"}
    /\ NextFile
    /\ UNCHANGED <<config, files, dirs, real, filenames_to_process, resolved, subIdx,
                   discovered, vanished>>

subtitle == subtitle_files[subIdx]

sub_destination == WithSuffix(destination, SuffixOf(subtitle))

\* lines 147-153, one subtitle
SubtitleCopy ==
    /\ pc = "subtitles"
    /\ action = "copy"
    /\ \E io \in IoOutcomes \ {"mkdir fails"} :
          IF subtitle \in DOMAIN files
          THEN IF io = "write fails" \/ subtitle = sub_destination
               THEN Abort /\ UNCHANGED files
               ELSE files' = Copy2(files, subtitle, sub_destination) /\ AfterSubtitle
          ELSE AfterSubtitle /\ UNCHANGED files
    /\ UNCHANGED <<config, dirs, real, filenames_to_process, resolved, discovered,
                   vanished>>

\* lines 161-167, one subtitle
SubtitleMove ==
    /\ pc = "subtitles"
    /\ action = "move"
    /\ \E io \in IoOutcomes \ {"mkdir fails"} :
          IF subtitle \in DOMAIN files
          THEN IF io = "write fails"
               THEN Abort /\ UNCHANGED files
               ELSE files' = ShutilMove(files, subtitle, sub_destination) /\ AfterSubtitle
          ELSE AfterSubtitle /\ UNCHANGED files
    /\ UNCHANGED <<config, dirs, real, filenames_to_process, resolved, discovered,
                   vanished>>

\* lines 170-172, one subtitle
SubtitleTest ==
    /\ pc = "subtitles"
    /\ action = "test"
    /\ AfterSubtitle
    /\ UNCHANGED <<config, files, dirs, real, filenames_to_process, resolved,
                   discovered, vanished>>

\* the files the current iteration has found and not yet placed
Pending ==
    IF pc = "place" THEN {movie_file} \cup Range(subtitle_files)
    ELSE { subtitle_files[i] : i \in { j \in DOMAIN subtitle_files : j >= subIdx } }

\* another process removes a file that the run has found and not yet placed
Vanish ==
    /\ pc \in {"place", "subtitles"}
    /\ vanished < MaxVanish
    /\ \E p \in Pending \cap DOMAIN files :
          files' = [q \in DOMAIN files \ {p} |-> files[q]]
    /\ vanished' = vanished + 1
    /\ UNCHANGED <<config, dirs, real, filenames_to_process, idx, resolved, subIdx, pc,
                   discovered>>

Next ==
    \/ Start
    \/ NoResults
    \/ Resolve
    \/ PlaceCopy
    \/ PlaceMove
    \/ PlaceTest
    \/ PlaceNothing
    \/ SubtitleCopy
    \/ SubtitleMove
    \/ SubtitleTest
    \/ Vanish

Spec == Init /\ [][Next]_vars

(***************************************************************************)
(* Claims about the run of main.                                           *)
(***************************************************************************)
\* a step of the run itself, not of another process
RunStep == <<pc, idx, subIdx>>' # <<pc, idx, subIdx>>

\* C1: the step that processes a movie file whose lookup returns no result
\* computes no destination, creates no directory and copies or moves no
\* file, whatever the configured action.
C1_NoResultTouchesNothing ==
    [][(pc = "search" /\ movies' = <<>>) =>
          /\ files' = files
          /\ dirs' = dirs
          /\ destination' = destination
          /\ subtitle_files' = subtitle_files]_vars

\* a file that exists was skipped for want of a result under action move,
\* after an earlier file of the run was moved to out/
C1_Witness ==
    /\ action = "move"
    /\ movies = <<>>
    /\ idx = 3
    /\ filenames_to_process[2] \in DOMAIN files
    /\ destination # NoPath
    /\ <<<<"o","u","t">>>> \in dirs

\* C2: with action test no step of the run changes the files or the
\* directories, so the file system after the run is the one before it.
C2_TestTouchesNothing ==
    [][(action = "test" /\ RunStep) => (files' = files /\ dirs' = dirs)]_vars

\* a run with action test that has resolved a movie, found two subtitles for
\* it and reported both
C2_Witness ==
    /\ action = "test"
    /\ pc = "done"
    /\ Len(subtitle_files) = 2
    /\ subIdx = 2
    /\ destination = <<<<"o","u","t">>, <<"A"," ","(","2","0","0","1",")",".","m","k","v">>>>

\* the movie placement of the current file completes, the source being there
MoviePlaced ==
    /\ pc = "place"
    /\ pc' \in {"subtitles", "search", "done"}
    /\ action \in {"copy", "move"}
    /\ movie_file \in DOMAIN files

\* a subtitle step of the current file
SubtitleStep == pc = "subtitles" /\ RunStep

\* C3 (as stated): a movie file that has a result and exists when it is
\* placed is still there with its content after a copy, and is no longer
\* there after a move, whatever the destination.
C3_CopyKeepsMoveRemoves ==
    [][MoviePlaced =>
          /\ action = "copy" =>
                movie_file \in DOMAIN files' /\ files'[movie_file] = files[movie_file]
          /\ action = "move" => movie_file \notin DOMAIN files']_vars

\* C3 (amended): after a copy the source is still there with its content;
\* after a move the source is no longer there, unless the destination is the
\* source path itself, and then the file stays where it is with its content.
\* The subtitle steps that follow change neither.
C3_CopyKeepsMoveRemovesUnlessSame ==
    [][/\ MoviePlaced =>
             /\ action = "copy" =>
                   movie_file \in DOMAIN files' /\ files'[movie_file] = files[movie_file]
             /\ (action = "move" /\ destination # movie_file) =>
                   movie_file \notin DOMAIN files'
             /\ (action = "move" /\ destination = movie_file) =>
                   movie_file \in DOMAIN files' /\ files'[movie_file] = files[movie_file]
       /\ SubtitleStep =>
             /\ (action = "copy" /\ movie_file \in DOMAIN files) =>
                   movie_file \in DOMAIN files' /\ files'[movie_file] = files[movie_file]
             /\ (action = "move" /\ movie_file \notin DOMAIN files) =>
                   movie_file \notin DOMAIN files']_vars

\* a movie was moved to another path, and its subtitles come next
C3_Witness ==
    /\ action = "move"
    /\ pc = "subtitles"
    /\ movie_file \notin DOMAIN files
    /\ destination \in DOMAIN files
    /\ files[destination] = movie_file

\* the contents held by the files
Contents(F) == { F[p] : p \in DOMAIN F }

\* C4: no step of a run with action copy or move loses a content: what some
\* file held before the step, some file holds after it.
C4_NothingLost ==
    [][(action \in {"copy", "move"} /\ RunStep) => Contents(files) \subseteq Contents(files')]_vars

\* C5: the run does not end before it has processed every file of the list.
C5_BatchCompletes ==
    pc \in {"done", "aborted"} => idx = Len(filenames_to_process) + 1

\* C10: no subtitle path is found for two different movie files of a run.
C10_OneMoviePerSubtitle ==
    action \in {"copy", "move", "test"} =>
        \A a, b \in discovered : a[2] = b[2] => a[1] = b[1]

(***************************************************************************)
(* SpecParse: extract_title_and_year applied to one filename.              *)
(***************************************************************************)
ParseTokens == { <<"a">>, <<"B">>, <<".">>, <<"-">>, <<"(">>, <<" ">>,
                 <<"1","9">>, <<"9","9">>, <<"2","0">>, <<"1","9","9","9">> }

RECURSIVE TokenStrings(_, _)
\* the concatenations of at most n tokens
TokenStrings(tokens, n) ==
    IF n = 0 THEN { <<>> }
    ELSE LET shorter == TokenStrings(tokens, n - 1)
         IN  shorter \cup { s \o t : s \in shorter, t \in tokens }

ParseInputs == TokenStrings(ParseTokens, MaxTokens) \cup {MatrixName, AvatarName}

\* the variables of main that a specification of one function leaves alone
NoRun ==
    /\ action = "test"
    /\ subtitles_enabled = FALSE
    /\ subtitle_exts = {}
    /\ movie_format = <<>>
    /\ path_arg = None
    /\ tmdb = {}
    /\ files = <<>>
    /\ dirs = {}
    /\ real = <<>>
    /\ filenames_to_process = <<>>
    /\ idx = 0
    /\ discovered = {}
    /\ vanished = 0

ParseInit ==
    /\ NoRun
    /\ filename \in ParseInputs
    /\ title = None
    /\ year = None
    /\ original_ext = None
    /\ movies = <<>>
    /\ resolved_year = None
    /\ destination = NoPath
    /\ subtitle_files = <<>>
    /\ subIdx = 0
    /\ pc = "parse"

\* lines 24-38
Parse ==
    /\ pc = "parse"
    /\ title' = extract_title_and_year(filename).title
    /\ year' = extract_title_and_year(filename).year
    /\ pc' = "parsed"
    /\ UNCHANGED <<config, files, dirs, real, filenames_to_process, idx, filename,
                   original_ext, movies, resolved_year, destination, subtitle_files,
                   subIdx, discovered, vanished>>

ParseNext == Parse

SpecParse == ParseInit /\ [][ParseNext]_vars

(***************************************************************************)
(* C6: what extract_title_and_year returns.                                *)
(***************************************************************************)
\* the leftmost 4-digit substring of s that begins with "19" or "20" starts
\* at position i
LeftmostYearAt(s, i) == YearAt(s, i) /\ \A j \in 1..(i - 1) : ~YearAt(s, j)

HasYear(s) == \E i \in DOMAIN s : YearAt(s, i)

\* separators and brackets turned into spaces
Spaced(s) == [i \in DOMAIN s |-> IF s[i] \in Brackets \cup Separators THEN " " ELSE s[i]]

\* the words of s: its maximal runs of characters other than the space
WordsOf(s) == SelectSeq(SplitOn(s, " "), LAMBDA w : w # <<>>)

\* a word capitalized: a letter that follows no letter in upper case, every
\* other letter in lower case
Capitalized(w) ==
    [i \in DOMAIN w |->
        IF ~IsCased(w[i]) THEN w[i]
        ELSE IF i = 1 \/ ~IsCased(w[i - 1]) THEN ToUpper(w[i]) ELSE ToLower(w[i])]

RECURSIVE JoinWords(_)
JoinWords(ws) ==
    IF ws = <<>> THEN <<>>
    ELSE IF Len(ws) = 1 THEN Capitalized(ws[1])
    ELSE Capitalized(ws[1]) \o <<" ">> \o JoinWords(Tail(ws))

\* text with separators and brackets turned into spaces, whitespace
\* collapsed, edges trimmed and each word capitalized
NormalizedText(s) == JoinWords(WordsOf(Spaced(s)))

\* the result the claim gives for the text s in which the year is searched
ParsedAs(s) ==
    /\ \A i \in DOMAIN s : LeftmostYearAt(s, i) =>
          /\ year = SubSeq(s, i, i + 3)
          /\ title = NormalizedText(SubSeq(s, 1, i - 1))
    /\ ~HasYear(s) => year = None

\* C6 (as stated): a filename that contains a 4-digit substring beginning
\* with "19" or "20" gives the leftmost such substring as year and the
\* normalized text before it as title; a filename with none gives no year
\* and the whole normalized stem as title.
C6_YearOfFilename ==
    pc = "parsed" =>
        /\ ParsedAs(filename)
        /\ ~HasYear(filename) => title = NormalizedText(StemOf(PathOf(filename)))

\* C6 (amended): the year is searched in the stem of the filename, its last
\* extension removed: a stem with a 4-digit substring beginning with "19" or
\* "20" gives the leftmost one as year and the normalized text of the stem
\* before it as title; a stem with none gives no year and the whole
\* normalized stem as title.  The two release names of the claim give
\* ("The Matrix", "1999") and ("Avatar", "2009").
C6_YearOfStem ==
    pc = "parsed" =>
        /\ ParsedAs(StemOf(PathOf(filename)))
        /\ ~HasYear(StemOf(PathOf(filename))) =>
              title = NormalizedText(StemOf(PathOf(filename)))
        /\ filename = MatrixName =>
              /\ title = <<"T","h","e"," ","M","a","t","r","i","x">>
              /\ year = <<"1","9","9","9">>
        /\ filename = AvatarName =>
              /\ title = <<"A","v","a","t","a","r">>
              /\ year = <<"2","0","0","9">>

\* a parsed filename with a separator before its year and a title of two
\* characters, the second one lower-cased by the title-casing
C6_Witness ==
    /\ pc = "parsed"
    /\ filename = <<"a", "B", "-", "1","9","9","9">>
    /\ title = <<"A", "b">>
    /\ year = <<"1","9","9","9">>

(***************************************************************************)
(* SpecName: the iteration of main up to the destination (lines 121-139),  *)
(* for one movie file, over the titles, release dates and templates that   *)
(* the lookup and the configuration can supply.                            *)
(***************************************************************************)
TitleTokens == { <<"A">>, <<".">>, <<"/">> }

NameTitles == TokenStrings(TitleTokens, MaxTitleTokens)

NameDates == { None, <<>>, <<"2","0">>, <<"2","0","0","1","-","0","5","-","0","1">> }

NameFirstResults == { [title |-> t, release_date |-> d] : t \in NameTitles, d \in NameDates }

\* the lookup answers with one result, or with two
NameResults == { <<m>> : m \in NameFirstResults } \cup { <<m, MovieB>> : m \in NameFirstResults }

NameFormats == { <<"{n}", " ", "(", "{y}", ")">>,
                 <<"{n}">>,
                 <<"{n}", ".", "a", "v", "i">>,
                 <<"o", "u", "t", "/", "{n}", ".", "{y}">> }

\* a release file, a file under a directory whose name holds a year and a
\* suffix that is no extension, and a file without suffix (a movie file when
\* movie_exts lists the empty string)
NameFiles == { <<<<"a",".","m","k","v">>>>, <<In, <<"b",".","1","9","9","9",".","M","X","]">>>>, <<<<"c">>>> }

NameInit ==
    /\ action = "other"
    /\ subtitles_enabled = FALSE
    /\ subtitle_exts = {}
    /\ movie_format \in NameFormats
    /\ path_arg = None
    /\ \E results \in NameResults : tmdb = { <<>>, results }
    /\ files = <<>>
    /\ dirs = { <<>> }
    /\ real = <<>>
    /\ \E f \in NameFiles : filenames_to_process = <<f>>
    /\ idx = 1
    /\ NoLocals
    /\ pc = "search"
    /\ discovered = {}
    /\ vanished = 0

NameNext == NoResults \/ Resolve \/ PlaceNothing

SpecName == NameInit /\ [][NameNext]_vars

\* s[:4], character by character
FirstFour(s) == [i \in 1..(IF Len(s) < 4 THEN Len(s) ELSE 4) |-> s[i]]

\* C9: when the lookup returns results the first one is selected, and the
\* resolved year is the year parsed from the filename if there is one, else
\* the first 4 characters of the first result's release date if that is
\* present and not empty, else "unknown".
C9_FirstResultAndYear ==
    pc = "place" =>
        /\ movies # <<>>
        /\ year # None => resolved_year = year
        /\ (year = None /\ movies[1].release_date \notin {None, <<>>}) =>
              resolved_year = FirstFour(movies[1].release_date)
        /\ (year = None /\ movies[1].release_date \in {None, <<>>}) =>
              resolved_year = Unknown
        /\ destination =
              WithSuffix(PathOf(Format(movie_format, movies[1].title, resolved_year)),
                         original_ext)

\* two results, the first one dated with fewer than 4 characters, for a
\* filename without year
C9_Witness ==
    /\ pc = "place"
    /\ Len(movies) = 2
    /\ movies[1].title = <<"A">>
    /\ year = None
    /\ resolved_year = <<"2","0">>
    /\ destination = <<<<"A"," ","(","2","0",")",".","m","k","v">>>>

\* C7 (as stated): the extension of the destination is the extension of the
\* movie source file, for every title, year, template and source filename.
C7_ExtensionKept ==
    pc = "place" => SuffixOf(destination) = SuffixOf(movie_file)

\* C7 (amended): the extension of the destination is the extension of the
\* movie source file when that file has one.
C7_ExtensionKeptIfAny ==
    (pc = "place" /\ SuffixOf(movie_file) # <<>>) =>
        SuffixOf(destination) = SuffixOf(movie_file)

\* a title with a dot under a template that ends in an extension of its own
C7_Witness ==
    /\ pc = "place"
    /\ movies[1].title = <<"A", ".", "A">>
    /\ movie_format = <<"{n}", ".", "a", "v", "i">>
    /\ destination = <<<<"A",".","A",".","m","k","v">>>>

(***************************************************************************)
(* SpecFind: find_subtitle_files on directories with symbolic links, in a  *)
(* run with action test.  real maps a path to the path it resolves to.     *)
(***************************************************************************)
\* in/Subs is a link to in: what in holds shows under in/Subs as well
LinkedDirTree ==
    [dirs |-> { <<>>, <<In>>, <<In, Subs>> },
     real |-> [p \in { <<In, <<"a",".","m","k","v">>>>, <<In, <<"x",".","s","r","t">>>>, <<In, Subs, <<"a",".","m","k","v">>>>,
                       <<In, Subs, <<"x",".","s","r","t">>>> } |-> <<In, NameOf(p)>>]]

\* in/Subtitles/x.srt is a link to in/Subs/x.srt
LinkedFileTree ==
    [dirs |-> { <<>>, <<In>>, <<In, Subs>>, <<In, Subtitles>> },
     real |-> [p \in { <<In, <<"a",".","m","k","v">>>>, <<In, Subs, <<"x",".","s","r","t">>>>, <<In, Subtitles, <<"x",".","s","r","t">>>>,
                       <<In, Subtitles, <<"y",".","s","u","b">>>> } |->
                 IF p = <<In, Subtitles, <<"x",".","s","r","t">>>> THEN <<In, Subs, <<"x",".","s","r","t">>>> ELSE p]]

\* no link; a subtitle that two of the configured extensions match, and one
\* whose extension is in upper case
PlainTree ==
    [dirs |-> { <<>>, <<In>>, <<In, Subs>> },
     real |-> [p \in { <<In, <<"a",".","m","k","v">>>>, <<In, <<"x",".","e","n",".","s","r","t">>>>, <<In, <<"z",".","S","R","T">>>>,
                       <<In, Subs, <<"y",".","s","r","t">>>> } |-> p]]

FindTrees == { LinkedDirTree, LinkedFileTree, PlainTree }

FindExts == { { <<".","s","r","t">> }, { <<".","s","r","t">>, <<".","S","U","B">> }, { <<".","s","r","t">>, <<".","e","n",".","s","r","t">> } }

FindInit ==
    /\ action = "test"
    /\ subtitles_enabled = TRUE
    /\ subtitle_exts \in FindExts
    /\ movie_format \in Formats
    /\ path_arg = <<"i","n">>
    /\ tmdb = { <<>>, <<MovieA>> }
    /\ \E tree \in FindTrees :
          /\ files = [p \in DOMAIN tree.real |-> tree.real[p]]
          /\ dirs = tree.dirs
          /\ real = tree.real
    /\ filenames_to_process = << <<In, <<"a",".","m","k","v">>>> >>
    /\ idx = 1
    /\ NoLocals
    /\ pc = "search"
    /\ discovered = {}
    /\ vanished = 0

FindNext == NoResults \/ Resolve \/ PlaceTest \/ SubtitleTest

SpecFind == FindInit /\ [][FindNext]_vars

\* C8: find_subtitle_files returns no file twice: no two entries of the list
\* resolve to the same file.
C8_NoFileTwice ==
    \A i, j \in DOMAIN subtitle_files :
        real[subtitle_files[i]] = real[subtitle_files[j]] => i = j


====
